---- MODULE Spec2Model ----
(***************************************************************************)
(* The RESP decoder of src/src/lib.rs.                                     *)
(*                                                                         *)
(* Text is a sequence of characters; a character is a one-character        *)
(* string, and a character outside ASCII is written by the name of its     *)
(* code point.  The cursor `bytes: &mut Chars` over the text s is the      *)
(* number pos of characters already taken: bytes.next() yields s[pos + 1]  *)
(* and moves pos to pos + 1, or yields nothing when pos = Len(s).          *)
(*                                                                         *)
(* An Option is a record with the field ok; Some carries val and the       *)
(* cursor pos that the call leaves behind.                                 *)
(***************************************************************************)
EXTENDS Integers, Sequences, FiniteSets, TLC

VARIABLES frame, input, pc, result

vars == <<frame, input, pc, result>>

----------------------------------------------------------------------------
(* Characters *)

CR == "\r"
LF == "\n"
\* U+00E9 takes 2 bytes in UTF-8, U+20AC takes 3
EAcute == "U+00E9"
Euro == "U+20AC"

SIMPLE_STRING == "+"
SIMPLE_ERROR == "-"
INTEGER == ":"
BULK_STRING == "$"
ARRAY == "*"
NULL == "_"
\* BOOLEAN is a word of TLA+
BOOLEAN_TAG == "#"
DOUBLE == ","
BIG_NUMBER == "("
BULK_ERROR == "!"
VERBATIM_STRING == "="
MAP == "%"
SET == "~"
PUSH == ">"

Digits == {"0", "1", "2", "3", "4", "5", "6", "7", "8", "9"}

\* char::is_ascii_digit
is_ascii_digit(c) == c \in Digits

DigitVal(c) ==
  CASE c = "0" -> 0 [] c = "1" -> 1 [] c = "2" -> 2 [] c = "3" -> 3
    [] c = "4" -> 4 [] c = "5" -> 5 [] c = "6" -> 6 [] c = "7" -> 7
    [] c = "8" -> 8 [] c = "9" -> 9

\* char::len_utf8 on the characters of the model
len_utf8(c) == IF c = EAcute THEN 2 ELSE IF c = Euro THEN 3 ELSE 1

\* a length in characters where the code takes the length in bytes
CharLen(data) == Len(data)

RECURSIVE ByteLen(_)
\* String::len: the length of the text in bytes, not in characters
ByteLen(data) ==
  IF data = <<>> THEN 0 ELSE len_utf8(Head(data)) + ByteLen(Tail(data))

\* char::is_whitespace on the characters of the model
is_whitespace(c) == c \in {" ", "\t", "\n", "\f", "\r"}

\* str::contains(char)
Contains(s, c) == \E i \in 1..Len(s) : s[i] = c

----------------------------------------------------------------------------
(* Option *)

None == [ok |-> FALSE]

Some(v, p) == [ok |-> TRUE, val |-> v, pos |-> p]

----------------------------------------------------------------------------
(* parse_until *)

RECURSIVE MatchStop(_, _, _, _)
\* the inner for loop: every further character of stop must come next
MatchStop(s, pos, stop_chars, data) ==
  IF stop_chars = <<>> THEN Some(data, pos)
  ELSE IF pos >= Len(s) THEN None
  ELSE IF s[pos + 1] = Head(stop_chars)
       THEN MatchStop(s, pos + 1, Tail(stop_chars), data)
       ELSE None

RECURSIVE UntilLoop(_, _, _, _)
\* the while loop over bytes.next()
UntilLoop(s, pos, stop, data) ==
  IF pos >= Len(s) THEN None
  ELSE LET x == s[pos + 1] IN
       IF ~Contains(stop, x) THEN UntilLoop(s, pos + 1, stop, Append(data, x))
       ELSE IF x = Head(stop) THEN MatchStop(s, pos + 1, Tail(stop), data)
       ELSE None

RECURSIVE UntilAnyLoop(_, _, _, _)
UntilAnyLoop(s, pos, stop, data) ==
  IF pos >= Len(s) THEN None
  ELSE IF ~Contains(stop, s[pos + 1])
       THEN UntilAnyLoop(s, pos + 1, stop, Append(data, s[pos + 1]))
       ELSE Some(data, pos + 1)

\* the line ends at the first character of stop, whichever it is and whatever
\* comes behind it
parse_until_any(s, pos, stop) == UntilAnyLoop(s, pos, stop, <<>>)

parse_until(s, pos, stop) == UntilLoop(s, pos, stop, <<>>)

parse_simple(s, pos) == parse_until(s, pos, <<CR, LF>>)

----------------------------------------------------------------------------
(* parse_number: str::parse of the line *)

RECURSIVE DecVal(_)
DecVal(ds) ==
  IF ds = <<>> THEN 0 ELSE 10 * DecVal(SubSeq(ds, 1, Len(ds) - 1)) + DigitVal(ds[Len(ds)])

AllDigits(t) == \A i \in 1..Len(t) : is_ascii_digit(t[i])

\* isize::from_str and i64::from_str: an optional + or -, then one digit or
\* more.  Overflow needs 19 digits, more than a line of the model holds.
ParseInt(t) ==
  LET signed == t # <<>> /\ t[1] \in {"+", "-"}
      ds == IF signed THEN Tail(t) ELSE t
  IN IF ds = <<>> \/ ~AllDigits(ds) THEN [ok |-> FALSE]
     ELSE [ok |-> TRUE, val |-> IF t[1] = "-" THEN 0 - DecVal(ds) ELSE DecVal(ds)]

Lower(c) ==
  CASE c = "I" -> "i" [] c = "N" -> "n" [] c = "F" -> "f" [] c = "A" -> "a"
    [] c = "T" -> "t" [] c = "Y" -> "y" [] OTHER -> c

MantissaOk(m) ==
  /\ \A i \in 1..Len(m) : is_ascii_digit(m[i]) \/ m[i] = "."
  /\ Cardinality({i \in 1..Len(m) : m[i] = "."}) <= 1
  /\ \E i \in 1..Len(m) : is_ascii_digit(m[i])

ExponentOk(e) ==
  LET ds == IF e # <<>> /\ e[1] \in {"+", "-"} THEN Tail(e) ELSE e
  IN ds # <<>> /\ AllDigits(ds)

\* f64::from_str accepts: an optional sign, then inf, infinity or nan in any
\* case, or digits with at most one point and an optional exponent.  The value
\* is kept as its lexeme.
ParseF64(t) ==
  LET b == IF t # <<>> /\ t[1] \in {"+", "-"} THEN Tail(t) ELSE t
      low == [i \in 1..Len(b) |-> Lower(b[i])]
      es == {i \in 1..Len(b) : b[i] \in {"e", "E"}}
      e == IF es = {} THEN 0 ELSE CHOOSE i \in es : \A j \in es : i <= j
      lexeme == \/ low \in {<<"i", "n", "f">>, <<"n", "a", "n">>,
                            <<"i", "n", "f", "i", "n", "i", "t", "y">>}
                \/ /\ e = 0
                   /\ MantissaOk(b)
                \/ /\ e > 0
                   /\ MantissaOk(SubSeq(b, 1, e - 1))
                   /\ ExponentOk(SubSeq(b, e + 1, Len(b)))
  IN IF lexeme THEN [ok |-> TRUE, val |-> t] ELSE [ok |-> FALSE]

\* parse_number::<isize> and parse_number::<i64>
parse_number(s, pos) ==
  LET line == parse_simple(s, pos) IN
  IF ~line.ok THEN None
  ELSE LET n == ParseInt(line.val) IN
       IF ~n.ok THEN None ELSE Some(n.val, line.pos)

\* parse_number::<f64>
parse_number_f64(s, pos) ==
  LET line == parse_simple(s, pos) IN
  IF ~line.ok THEN None
  ELSE LET n == ParseF64(line.val) IN
       IF ~n.ok THEN None ELSE Some(n.val, line.pos)

----------------------------------------------------------------------------
(* parse_inline *)

RECURSIVE SplitLoop(_, _, _)
\* str::split_whitespace: the maximal runs of characters that are not
\* whitespace, in order; cur is the run being read
SplitLoop(t, cur, out) ==
  IF t = <<>> THEN (IF cur = <<>> THEN out ELSE Append(out, cur))
  ELSE IF is_whitespace(Head(t))
       THEN SplitLoop(Tail(t), <<>>, IF cur = <<>> THEN out ELSE Append(out, cur))
       ELSE SplitLoop(Tail(t), Append(cur, Head(t)), out)

split_whitespace(t) == SplitLoop(t, <<>>, <<>>)

\* the character already taken by parse_internal is not put back
parse_inline_rest(initial, s, pos) ==
  LET collected == SubSeq(s, pos + 1, Len(s))
      data == SelectSeq(split_whitespace(collected), LAMBDA x : x # <<>>)
  IN IF data = <<>> THEN None ELSE Some(data, Len(s))

parse_inline(initial, s, pos) ==
  LET collected == <<initial>> \o SubSeq(s, pos + 1, Len(s))
      data == SelectSeq(split_whitespace(collected), LAMBDA x : x # <<>>)
  IN IF data = <<>> THEN None ELSE Some(data, Len(s))

----------------------------------------------------------------------------
(* parse_big_number *)

\* the leading + is kept in the stored text
parse_big_number_keep_plus(s, pos) ==
  LET line == parse_simple(s, pos) IN
  IF ~line.ok THEN None
  ELSE LET data == line.val IN
       IF data = <<>> THEN None
       ELSE IF \/ ~(Head(data) = "+" \/ Head(data) = "-" \/ is_ascii_digit(Head(data)))
               \/ ~AllDigits(Tail(data))
            THEN None
            ELSE Some(data, line.pos)

parse_big_number(s, pos) ==
  LET line == parse_simple(s, pos) IN
  IF ~line.ok THEN None
  ELSE LET data == line.val IN
       IF data = <<>> THEN None
       ELSE LET first == Head(data)
                chars == Tail(data)
            IN IF \/ ~(first = "+" \/ first = "-" \/ is_ascii_digit(first))
                  \/ ~AllDigits(chars)
               THEN None
               ELSE IF first = "+" THEN Some(Tail(data), line.pos)
               ELSE Some(data, line.pos)

----------------------------------------------------------------------------
(* parse_bulk *)

\* the payload is the next length characters, whatever they are, and CR LF
\* must come behind them
parse_bulk_binary(s, pos) ==
  LET length == parse_number(s, pos) IN
  IF ~length.ok THEN None
  ELSE IF length.val < 0
       THEN [ok |-> TRUE, length |-> length.val, data |-> <<>>, pos |-> length.pos]
  ELSE LET end == length.pos + length.val IN
       IF end + 2 > Len(s) \/ s[end + 1] # CR \/ s[end + 2] # LF THEN None
       ELSE [ok |-> TRUE, length |-> length.val,
             data |-> SubSeq(s, length.pos + 1, end), pos |-> end + 2]

\* the payload line is read for the length -1 as well
parse_bulk_always_payload(s, pos) ==
  LET length == parse_number(s, pos) IN
  IF ~length.ok THEN None
  ELSE LET data == parse_simple(s, length.pos) IN
       IF ~data.ok THEN None
       ELSE [ok |-> TRUE, length |-> length.val, data |-> data.val, pos |-> data.pos]

parse_bulk(s, pos) ==
  LET length == parse_number(s, pos) IN
  IF ~length.ok THEN None
  ELSE IF length.val = -1
       THEN [ok |-> TRUE, length |-> length.val, data |-> <<>>, pos |-> length.pos]
  ELSE LET data == parse_simple(s, length.pos) IN
       IF ~data.ok THEN None
       ELSE [ok |-> TRUE, length |-> length.val, data |-> data.val, pos |-> data.pos]

----------------------------------------------------------------------------
(* enum RESP *)

SimpleString(t) == [type |-> "SimpleString", text |-> t]
SimpleError(t) == [type |-> "SimpleError", text |-> t]
Integer(n) == [type |-> "Integer", int |-> n]
BulkString(t) == [type |-> "BulkString", text |-> t]
NullBulkString == [type |-> "NullBulkString"]
Array(vs) == [type |-> "Array", items |-> vs]
NullArray == [type |-> "NullArray"]
Null == [type |-> "Null"]
Boolean(b) == [type |-> "Boolean", bool |-> b]
Double(lexeme) == [type |-> "Double", lexeme |-> lexeme]
BigNumber(t) == [type |-> "BigNumber", text |-> t]
BulkError(t) == [type |-> "BulkError", text |-> t]
VerbatimString(enc, d) == [type |-> "VerbatimString", encoding |-> enc, data |-> d]
Map(ps) == [type |-> "Map", pairs |-> ps]
Set(vs) == [type |-> "Set", items |-> vs]
Push(vs) == [type |-> "Push", items |-> vs]
Inline(ts) == [type |-> "Inline", tokens |-> ts]

----------------------------------------------------------------------------
(* parse_array, parse_map *)

RECURSIVE parse_internal(_, _, _)

RECURSIVE ArrayLoop(_, _, _, _)
\* for _ in 0..length { data.push(parse_internal(bytes, true)?) }
ArrayLoop(s, pos, left, data) ==
  IF left <= 0 THEN Some(data, pos)
  ELSE LET e == parse_internal(s, pos, TRUE) IN
       IF ~e.ok THEN None
       ELSE ArrayLoop(s, e.pos, left - 1, Append(data, e.val))

\* the loop runs over 1..length: one element short
parse_array_short(s, pos) ==
  LET length == parse_number(s, pos) IN
  IF ~length.ok THEN None
  ELSE LET data == ArrayLoop(s, length.pos, length.val - 1, <<>>) IN
       IF ~data.ok THEN None
       ELSE [ok |-> TRUE, length |-> length.val, data |-> data.val, pos |-> data.pos]

parse_array(s, pos) ==
  LET length == parse_number(s, pos) IN
  IF ~length.ok THEN None
  ELSE LET data == ArrayLoop(s, length.pos, length.val, <<>>) IN
       IF ~data.ok THEN None
       ELSE [ok |-> TRUE, length |-> length.val, data |-> data.val, pos |-> data.pos]

RECURSIVE MapLoopSwapped(_, _, _, _)
\* the first value of a pair is stored as the value, the second as the key
MapLoopSwapped(s, pos, left, data) ==
  IF left <= 0 THEN Some(data, pos)
  ELSE LET k == parse_internal(s, pos, TRUE) IN
       IF ~k.ok THEN None
       ELSE LET v == parse_internal(s, k.pos, TRUE) IN
            IF ~v.ok THEN None
            ELSE MapLoopSwapped(s, v.pos, left - 1, Append(data, <<v.val, k.val>>))

RECURSIVE MapLoop(_, _, _, _)
\* for _ in 0..length { data.push((parse_internal(..)?, parse_internal(..)?)) }
MapLoop(s, pos, left, data) ==
  IF left <= 0 THEN Some(data, pos)
  ELSE LET k == parse_internal(s, pos, TRUE) IN
       IF ~k.ok THEN None
       ELSE LET v == parse_internal(s, k.pos, TRUE) IN
            IF ~v.ok THEN None
            ELSE MapLoop(s, v.pos, left - 1, Append(data, <<k.val, v.val>>))

parse_map(s, pos) ==
  LET length == parse_number(s, pos) IN
  IF ~length.ok THEN None
  ELSE LET data == MapLoop(s, length.pos, length.val, <<>>) IN
       IF ~data.ok THEN None
       ELSE [ok |-> TRUE, length |-> length.val, data |-> data.val, pos |-> data.pos]

----------------------------------------------------------------------------
(* The arms of parse_internal, after the tag is taken; pos is behind the tag *)

SimpleStringArm(s, pos) ==
  LET data == parse_simple(s, pos) IN
  IF ~data.ok THEN None ELSE Some(SimpleString(data.val), data.pos)

SimpleErrorArm(s, pos) ==
  LET data == parse_simple(s, pos) IN
  IF ~data.ok THEN None ELSE Some(SimpleError(data.val), data.pos)

IntegerArm(s, pos) ==
  LET n == parse_number(s, pos) IN
  IF ~n.ok THEN None ELSE Some(Integer(n.val), n.pos)

BulkStringArm(s, pos) ==
  LET b == parse_bulk(s, pos) IN
  IF ~b.ok THEN None
  ELSE IF b.length < -1 THEN None
  ELSE IF b.length = -1 THEN Some(NullBulkString, b.pos)
  ELSE IF b.length # ByteLen(b.data) THEN None
  ELSE Some(BulkString(b.data), b.pos)

ArrayArm(s, pos) ==
  LET a == parse_array(s, pos) IN
  IF ~a.ok THEN None
  ELSE IF a.length < -1 THEN None
  ELSE IF a.length = -1 THEN Some(NullArray, a.pos)
  ELSE IF a.length # Len(a.data) THEN None
  ELSE Some(Array(a.data), a.pos)

NullArm(s, pos) ==
  LET data == parse_simple(s, pos) IN
  IF ~data.ok THEN None
  ELSE IF data.val = <<>> THEN Some(Null, data.pos)
  ELSE None

BooleanArm(s, pos) ==
  LET data == parse_simple(s, pos) IN
  IF ~data.ok THEN None
  ELSE IF data.val = <<"t">> THEN Some(Boolean(TRUE), data.pos)
  ELSE IF data.val = <<"f">> THEN Some(Boolean(FALSE), data.pos)
  ELSE None

DoubleArm(s, pos) ==
  LET n == parse_number_f64(s, pos) IN
  IF ~n.ok THEN None ELSE Some(Double(n.val), n.pos)

BigNumberArm(s, pos) ==
  LET n == parse_big_number(s, pos) IN
  IF ~n.ok THEN None ELSE Some(BigNumber(n.val), n.pos)

BulkErrorArm(s, pos) ==
  LET b == parse_bulk(s, pos) IN
  IF ~b.ok THEN None
  ELSE IF b.length < 0 THEN None
  ELSE IF b.length # ByteLen(b.data) THEN None
  ELSE Some(BulkError(b.data), b.pos)

\* str::split_once(":"): the index of the first ':', 0 when there is none
FirstColon(data) ==
  LET cs == {i \in 1..Len(data) : data[i] = ":"} IN
  IF cs = {} THEN 0 ELSE CHOOSE i \in cs : \A j \in cs : i <= j

\* the length of the encoding is not tested
VerbatimStringArmAnyEncoding(s, pos) ==
  LET b == parse_bulk(s, pos) IN
  IF ~b.ok THEN None
  ELSE IF b.length < 4 THEN None
  ELSE IF b.length # ByteLen(b.data) THEN None
  ELSE LET c == FirstColon(b.data) IN
       IF c = 0 THEN None
       ELSE Some(VerbatimString(SubSeq(b.data, 1, c - 1),
                                SubSeq(b.data, c + 1, Len(b.data))), b.pos)

VerbatimStringArm(s, pos) ==
  LET b == parse_bulk(s, pos) IN
  IF ~b.ok THEN None
  ELSE IF b.length < 4 THEN None
  ELSE IF b.length # ByteLen(b.data) THEN None
  ELSE LET c == FirstColon(b.data) IN
       IF c = 0 THEN None
       ELSE LET encoding == SubSeq(b.data, 1, c - 1)
                data == SubSeq(b.data, c + 1, Len(b.data))
            IN IF ByteLen(encoding) # 3 THEN None
               ELSE Some(VerbatimString(encoding, data), b.pos)

MapArm(s, pos) ==
  LET m == parse_map(s, pos) IN
  IF ~m.ok THEN None
  ELSE IF m.length < 0 THEN None
  ELSE IF m.length # Len(m.data) THEN None
  ELSE Some(Map(m.data), m.pos)

\* the set treated as the array is: the count -1 gives a null
SetArmLikeArray(s, pos) ==
  LET a == parse_array(s, pos) IN
  IF ~a.ok THEN None
  ELSE IF a.length < -1 THEN None
  ELSE IF a.length = -1 THEN Some(NullArray, a.pos)
  ELSE IF a.length # Len(a.data) THEN None
  ELSE Some(Set(a.data), a.pos)

SetArm(s, pos) ==
  LET a == parse_array(s, pos) IN
  IF ~a.ok THEN None
  ELSE IF a.length < 0 THEN None
  ELSE IF a.length # Len(a.data) THEN None
  ELSE Some(Set(a.data), a.pos)

\* a push accepted at any depth: the test of internal is left out
PushArmAnyDepth(s, pos, internal) ==
  LET a == parse_array(s, pos) IN
  IF ~a.ok THEN None
  ELSE IF a.length < 0 THEN None
  ELSE IF a.length # Len(a.data) THEN None
  ELSE Some(Push(a.data), a.pos)

PushArm(s, pos, internal) ==
  LET a == parse_array(s, pos) IN
  IF ~a.ok THEN None
  ELSE IF a.length < 0 \/ internal THEN None
  ELSE IF a.length # Len(a.data) THEN None
  ELSE Some(Push(a.data), a.pos)

InlineArm(x, s, pos) ==
  LET data == parse_inline(x, s, pos) IN
  IF ~data.ok THEN None ELSE Some(Inline(data.val), data.pos)

----------------------------------------------------------------------------
(* parse_internal, parse *)

parse_internal(s, pos, internal) ==
  IF pos >= Len(s) THEN None
  ELSE LET x == s[pos + 1]
           p == pos + 1
       IN CASE x = SIMPLE_STRING -> SimpleStringArm(s, p)
            [] x = SIMPLE_ERROR -> SimpleErrorArm(s, p)
            [] x = INTEGER -> IntegerArm(s, p)
            [] x = BULK_STRING -> BulkStringArm(s, p)
            [] x = ARRAY -> ArrayArm(s, p)
            [] x = NULL -> NullArm(s, p)
            [] x = BOOLEAN_TAG -> BooleanArm(s, p)
            [] x = DOUBLE -> DoubleArm(s, p)
            [] x = BIG_NUMBER -> BigNumberArm(s, p)
            [] x = BULK_ERROR -> BulkErrorArm(s, p)
            [] x = VERBATIM_STRING -> VerbatimStringArm(s, p)
            [] x = MAP -> MapArm(s, p)
            [] x = SET -> SetArm(s, p)
            [] x = PUSH -> PushArm(s, p, internal)
            [] OTHER -> InlineArm(x, s, p)

\* a value is returned only when the whole input was consumed
parse_whole(data) ==
  LET r == parse_internal(data, 0, FALSE) IN
  IF r.ok /\ r.pos # Len(data) THEN None ELSE r

parse(data) == parse_internal(data, 0, FALSE)

----------------------------------------------------------------------------
(* The nested decodes of one parse: every call parse_internal(bytes, true)
   made by the loops of parse_array and parse_map, in the order the calls
   start, with the cursor at the start of the call, the nesting depth of the
   call and what the call returns. *)

RECURSIVE NestedCalls(_, _, _)
RECURSIVE ArrayCalls(_, _, _, _)
RECURSIVE MapCallsNoAbort(_, _, _, _)
RECURSIVE MapCalls(_, _, _, _)

\* for _ in 0..length { data.push(parse_internal(bytes, true)?) }
ArrayCalls(s, pos, left, depth) ==
  IF left <= 0 THEN <<>>
  ELSE LET e == parse_internal(s, pos, TRUE)
           call == <<[from |-> pos, depth |-> depth, result |-> e]>>
                     \o NestedCalls(s, pos, depth + 1)
       IN IF ~e.ok THEN call
          ELSE call \o ArrayCalls(s, e.pos, left - 1, depth)

\* a failed key or value does not end the loop
MapCallsNoAbort(s, pos, left, depth) ==
  IF left <= 0 THEN <<>>
  ELSE LET k == parse_internal(s, pos, TRUE)
           kpos == IF k.ok THEN k.pos ELSE pos
           v == parse_internal(s, kpos, TRUE)
           vpos == IF v.ok THEN v.pos ELSE kpos
       IN <<[from |-> pos, depth |-> depth, result |-> k]>>
            \o NestedCalls(s, pos, depth + 1)
            \o <<[from |-> kpos, depth |-> depth, result |-> v]>>
            \o NestedCalls(s, kpos, depth + 1)
            \o MapCallsNoAbort(s, vpos, left - 1, depth)

\* for _ in 0..length { data.push((parse_internal(..)?, parse_internal(..)?)) }
MapCalls(s, pos, left, depth) ==
  IF left <= 0 THEN <<>>
  ELSE LET k == parse_internal(s, pos, TRUE)
           kcall == <<[from |-> pos, depth |-> depth, result |-> k]>>
                      \o NestedCalls(s, pos, depth + 1)
       IN IF ~k.ok THEN kcall
          ELSE LET v == parse_internal(s, k.pos, TRUE)
                   vcall == <<[from |-> k.pos, depth |-> depth, result |-> v]>>
                              \o NestedCalls(s, k.pos, depth + 1)
               IN IF ~v.ok THEN kcall \o vcall
                  ELSE kcall \o vcall \o MapCalls(s, v.pos, left - 1, depth)

\* the nested decodes made inside the call parse_internal at pos: the ARRAY,
\* SET and PUSH arms run parse_array, the MAP arm parse_map, no other arm
\* decodes a nested value
NestedCalls(s, pos, depth) ==
  IF pos >= Len(s) THEN <<>>
  ELSE LET x == s[pos + 1]
           length == parse_number(s, pos + 1)
       IN IF x \in {ARRAY, SET, PUSH, MAP} /\ length.ok
          THEN IF x = MAP
               THEN MapCalls(s, length.pos, length.val, depth)
               ELSE ArrayCalls(s, length.pos, length.val, depth)
          ELSE <<>>

\* the nested decodes of parse(data); the elements of the top-level value
\* are at depth 1
parse_calls(data) == NestedCalls(data, 0, 1)

----------------------------------------------------------------------------
(* Bounds of the inputs *)

\* characters after the tag of a free-form input
MaxLine == 5
\* characters of a bulk payload
MaxPayload == 5
\* a declared length or count ranges over -MaxNeg..MaxDeclared
MaxNeg == 2
MaxDeclared == 9
\* characters of the encoding and of the data of a verbatim payload
MaxEncoding == 4
MaxData == 2
\* element encodings after the count line of an aggregate, and its count
MaxElems == 3
MaxCount == 4
\* characters of an input read as a whole
MaxInline == 5
\* element encodings behind the count line of a map
MaxValues == 4
\* element encodings of a frame that gets a text appended, and characters of
\* that text
MaxBaseElems == 2
MaxSuffix == 2

----------------------------------------------------------------------------
(* Inputs.  A frame says how the input text is put together; the decoder    *)
(* sees the text alone.                                                     *)

BoundedSeq(S, n) == UNION {[1..k -> S] : k \in 0..n}

RECURSIVE NatDec(_)
\* the decimal digits of a natural number
NatDec(n) ==
  LET d == CHOOSE c \in Digits : DigitVal(c) = n % 10 IN
  IF n < 10 THEN <<d>> ELSE Append(NatDec(n \div 10), d)

\* a length or count line without its terminator
Dec(n) == IF n < 0 THEN <<"-">> \o NatDec(0 - n) ELSE NatDec(n)

CRLF == <<CR, LF>>

Tags ==
  {SIMPLE_STRING, SIMPLE_ERROR, INTEGER, BULK_STRING, ARRAY, NULL, BOOLEAN_TAG,
   DOUBLE, BIG_NUMBER, BULK_ERROR, VERBATIM_STRING, MAP, SET, PUSH}

LineAlphabet == {"a", "0", "1", "+", "-", CR, LF}
PayloadAlphabet == {"a", ":", EAcute, CR, LF}
InlineAlphabet == {"a", "b", " ", "\t", CR, LF, "+"}
\* encodings of nested elements: a simple string, a null bulk string, an
\* array, a line whose first character is no type tag, a push, a map whose
\* value is such a line, an array of a push
SiblingTable ==
  << <<"+", "a", CR, LF>>,
     <<"$", "-", "1", CR, LF>>,
     <<"*", "1", CR, LF, ":", "1", CR, LF>>,
     <<"a", CR, LF>>,
     <<">", "0", CR, LF>>,
     <<"%", "1", CR, LF, "+", "a", CR, LF, "a", CR, LF>>,
     <<"*", "1", CR, LF, ">", "0", CR, LF>> >>
SiblingIds == DOMAIN SiblingTable
SuffixAlphabet == {"a", CR, LF}
BulkTags == {BULK_STRING, BULK_ERROR, VERBATIM_STRING}
AggregateTags == {ARRAY, SET, PUSH, MAP}

\* Element encodings an aggregate frame is built from, each a complete
\* encoding of one value: wire is its text, val what it decodes to as a
\* nested element, nested FALSE when it holds a push and so decodes to nothing.
ElemTable ==
  << [wire |-> <<"+", "a">> \o CRLF, nested |-> TRUE, val |-> SimpleString(<<"a">>)],
     [wire |-> <<"$", "-", "1">> \o CRLF, nested |-> TRUE, val |-> NullBulkString],
     [wire |-> <<"*", "1">> \o CRLF \o <<":", "1">> \o CRLF, nested |-> TRUE,
      val |-> Array(<<Integer(1)>>)],
     [wire |-> <<">", "0">> \o CRLF, nested |-> FALSE, val |-> Push(<<>>)],
     [wire |-> <<"*", "1">> \o CRLF \o <<">", "0">> \o CRLF, nested |-> FALSE,
      val |-> Array(<<Push(<<>>)>>)],
     [wire |-> <<"%", "1">> \o CRLF \o <<"+", "a">> \o CRLF \o <<">", "0">> \o CRLF,
      nested |-> FALSE, val |-> Map(<<<<SimpleString(<<"a">>), Push(<<>>)>>>>)] >>

ElemIds == 1..Len(ElemTable)

RECURSIVE ElemsWire(_)
ElemsWire(ids) ==
  IF ids = <<>> THEN <<>> ELSE ElemTable[Head(ids)].wire \o ElemsWire(Tail(ids))

RECURSIVE SiblingsWire(_)
SiblingsWire(ids) ==
  IF ids = <<>> THEN <<>> ELSE SiblingTable[Head(ids)] \o SiblingsWire(Tail(ids))

Frame(family, tag, n, body, elems) ==
  [family |-> family, tag |-> tag, n |-> n, body |-> body, elems |-> elems]

\* the text of a frame
Wire(f) ==
  CASE f.family = "line" -> <<f.tag>> \o f.body
    [] f.family \in {"bulk", "verbatim"} ->
         <<f.tag>> \o Dec(f.n) \o CRLF \o f.body \o CRLF
    [] f.family = "aggregate" ->
         <<f.tag>> \o Dec(f.n) \o CRLF \o ElemsWire(f.elems)
    [] f.family = "map" ->
         <<f.tag>> \o Dec(f.n) \o CRLF \o ElemsWire(f.elems)
    [] f.family = "inline" -> f.body
    [] f.family = "suffixed" ->
         <<f.tag>> \o Dec(f.n) \o CRLF \o SiblingsWire(f.elems) \o f.body
    [] f.family = "siblings" ->
         <<f.tag>> \o Dec(f.n) \o CRLF \o SiblingsWire(f.elems)

----------------------------------------------------------------------------
(* The program: one call of RESP::parse on the input *)

NoResult == [ok |-> FALSE]

\* parse is about to be called on the text of the frame f
Start(f) ==
  /\ frame = f
  /\ input = Wire(f)
  /\ pc = "start"
  /\ result = NoResult

\* a tag or the letter a, then any text of the line alphabet
InitLine ==
  \E tag \in Tags \cup {"a"}, body \in BoundedSeq(LineAlphabet, MaxLine) :
    Start(Frame("line", tag, 0, body, <<>>))

\* a length line, then any payload of the payload alphabet, then CR LF
InitBulk ==
  \E tag \in BulkTags, n \in (0 - MaxNeg)..MaxDeclared,
     body \in BoundedSeq(PayloadAlphabet, MaxPayload) :
    Start(Frame("bulk", tag, n, body, <<>>))

\* the bulk frames of a negative declared length
InitNegativeBulk ==
  \E tag \in BulkTags, n \in (0 - MaxNeg)..(-1),
     body \in BoundedSeq(PayloadAlphabet, MaxPayload) :
    Start(Frame("bulk", tag, n, body, <<>>))

\* a verbatim string whose payload is an encoding, a colon or none, and data
InitVerbatim ==
  \E n \in (0 - MaxNeg)..MaxDeclared, enc \in BoundedSeq({"a", EAcute}, MaxEncoding),
     sep \in {<<>>, <<":">>}, data \in BoundedSeq({"a", ":"}, MaxData) :
    Start(Frame("verbatim", VERBATIM_STRING, n, enc \o sep \o data, <<>>))

\* a count line, then element encodings
InitAggregate ==
  \E tag \in AggregateTags, n \in (0 - MaxNeg)..MaxCount,
     elems \in BoundedSeq(ElemIds, MaxElems) :
    Start(Frame("aggregate", tag, n, <<>>, elems))

\* any text of the inline alphabet, the empty text included
InitInline ==
  \E body \in BoundedSeq(InlineAlphabet, MaxInline) :
    Start(Frame("inline", "", 0, body, <<>>))

\* an aggregate with any count and elements of the sibling table
InitSiblings ==
  \E tag \in AggregateTags, n \in 0..MaxCount,
     elems \in BoundedSeq(SiblingIds, MaxElems) :
    Start(Frame("siblings", tag, n, <<>>, elems))

\* a map with a count n >= 0 and any number of element encodings behind it
InitMap ==
  \E n \in 0..MaxCount, elems \in BoundedSeq(ElemIds, MaxValues) :
    Start(Frame("map", MAP, n, <<>>, elems))

\* an integer or an aggregate with elements of the sibling table, followed
\* by any text of the suffix alphabet
InitSuffixed ==
  \E tag \in AggregateTags \cup {INTEGER}, n \in 0..MaxBaseElems,
     elems \in BoundedSeq(SiblingIds, MaxBaseElems),
     t \in BoundedSeq(SuffixAlphabet, MaxSuffix) :
    Start(Frame("suffixed", tag, n, t, elems))

Init ==
  \/ InitLine \/ InitBulk \/ InitVerbatim \/ InitAggregate \/ InitInline
  \/ InitSiblings \/ InitMap \/ InitSuffixed

Parse ==
  /\ pc = "start"
  /\ result' = parse(input)
  /\ pc' = "done"
  /\ UNCHANGED <<frame, input>>

Next == Parse

Spec == Init /\ [][Next]_vars

SpecLine == InitLine /\ [][Next]_vars

SpecBulk == (InitBulk \/ InitVerbatim) /\ [][Next]_vars

SpecAggregate == InitAggregate /\ [][Next]_vars

SpecLength == (InitNegativeBulk \/ InitAggregate) /\ [][Next]_vars

SpecInline == InitInline /\ [][Next]_vars
SpecSiblings == InitSiblings /\ [][Next]_vars
SpecMap == InitMap /\ [][Next]_vars
SpecSuffixed == InitSuffixed /\ [][Next]_vars

\* The caller before the call: no input yet.
InitIdle ==
  /\ frame = Frame("idle", "", 0, <<>>, <<>>)
  /\ input = <<>>
  /\ pc = "idle"
  /\ result = NoResult

\* the caller hands parse an aggregate with any count and elements of the
\* sibling table
Call ==
  /\ pc = "idle"
  /\ \E tag \in AggregateTags, n \in 0..MaxCount,
        elems \in BoundedSeq(SiblingIds, MaxElems) :
       /\ frame' = Frame("siblings", tag, n, <<>>, elems)
       /\ input' = Wire(Frame("siblings", tag, n, <<>>, elems))
  /\ pc' = "start"
  /\ UNCHANGED result

NextCall == Call \/ Parse

\* the step from the call to the return, which only Parse makes
Returns == pc = "start" /\ pc' = "done"

\* parse is an ordinary call on the caller's thread: once made, it runs
SpecTermination == InitIdle /\ [][NextCall]_vars /\ WF_pc(Returns)

Done == pc = "done"

----------------------------------------------------------------------------
(* What the claims say of an input, read off the frame and not off the      *)
(* decoder                                                                  *)

IsBreak(c) == c = CR \/ c = LF

\* the index of the first CR or LF of a text, 0 when it has none
FirstBreak(t) ==
  LET bs == {i \in 1..Len(t) : IsBreak(t[i])} IN
  IF bs = {} THEN 0 ELSE CHOOSE i \in bs : \A j \in bs : i <= j

\* the first CR or LF of the text is a CR with a LF right behind it
Terminated(t) ==
  LET k == FirstBreak(t) IN k > 0 /\ t[k] = CR /\ k < Len(t) /\ t[k + 1] = LF

\* the text before the first CR or LF
FirstLine(t) ==
  LET k == FirstBreak(t) IN IF k = 0 THEN t ELSE SubSeq(t, 1, k - 1)

NoBreak(t) == \A i \in 1..Len(t) : ~IsBreak(t[i])

\* the number of bytes of a text in UTF-8: U+00E9 takes two, U+20AC three
Utf8Bytes(t) ==
  Len(t) + Cardinality({i \in 1..Len(t) : t[i] = EAcute})
         + 2 * Cardinality({i \in 1..Len(t) : t[i] = Euro})

IsBulkFrame == frame.family \in {"bulk", "verbatim"}

\* the payload line of a bulk frame: what follows the length line, up to the
\* first CR or LF
PayloadLine == FirstLine(frame.body \o CRLF)

----------------------------------------------------------------------------
(* C1 *)

\* C1 as stated: for $, ! and = with a declared length n >= 0, parse succeeds
\* only if the payload line holds exactly n characters, whatever the
\* characters are.
C1_CharacterCount ==
  (Done /\ IsBulkFrame /\ frame.n >= 0 /\ result.ok)
    => Len(PayloadLine) = frame.n

\* C1, amended: for $, ! and = with a declared length n >= 0, parse succeeds
\* only if the payload line is ended by CR LF and holds exactly n bytes in
\* UTF-8, which is n characters when the payload is ASCII; a payload line of
\* any other byte length makes parse return None.
C1_ByteCount ==
  (Done /\ IsBulkFrame /\ frame.n >= 0)
    => /\ result.ok => /\ Terminated(frame.body \o CRLF)
                       /\ Utf8Bytes(PayloadLine) = frame.n
       /\ (frame.tag \in {BULK_STRING, BULK_ERROR}
             /\ Utf8Bytes(PayloadLine) = frame.n
             /\ Terminated(frame.body \o CRLF))
            => result.ok

\* a payload with a character of two bytes is accepted under its byte length
C1_Witness ==
  /\ Done
  /\ frame.family = "bulk"
  /\ frame.tag = BULK_ERROR
  /\ frame.body = <<"a", EAcute>>
  /\ frame.n = 3
  /\ result.ok
  /\ result.val = BulkError(<<"a", EAcute>>)

----------------------------------------------------------------------------
(* C2 *)

IsAggregateFrame == frame.family = "aggregate"

\* the values the element encodings decode to, in order
ElemVals(ids) == [i \in 1..Len(ids) |-> ElemTable[ids[i]].val]

\* no element encoding holds a push
AllNested(ids) == \A i \in 1..Len(ids) : ElemTable[ids[i]].nested

Aggregate(tag, vs) ==
  CASE tag = ARRAY -> Array(vs) [] tag = SET -> Set(vs) [] tag = PUSH -> Push(vs)

\* a top-level array, set or push with a count n >= 0, followed by element
\* encodings that each decode as a nested element
CountedFrame ==
  /\ IsAggregateFrame
  /\ frame.tag \in {ARRAY, SET, PUSH}
  /\ frame.n >= 0
  /\ AllNested(frame.elems)

\* C2 as stated: for *, ~ and top-level > with a count n >= 0, parse returns
\* the aggregate of exactly n elements in input order, and None both when
\* fewer and when more than n element encodings follow the count line.
C2_FewerOrMoreFail ==
  (Done /\ CountedFrame)
    => IF Len(frame.elems) = frame.n
       THEN result.ok /\ result.val = Aggregate(frame.tag, ElemVals(frame.elems))
       ELSE ~result.ok

\* C2, amended: for *, ~ and top-level > with a count n >= 0, parse returns
\* the aggregate of exactly the first n elements in input order whenever at
\* least n element encodings follow the count line, leaving the cursor behind
\* the n-th and ignoring what follows; it returns None when fewer than n follow.
C2_FirstCountElements ==
  (Done /\ CountedFrame)
    => IF Len(frame.elems) >= frame.n
       THEN LET taken == SubSeq(frame.elems, 1, frame.n) IN
            /\ result.ok
            /\ result.val = Aggregate(frame.tag, ElemVals(taken))
            /\ Len(result.val.items) = frame.n
            /\ result.pos = 1 + Len(Dec(frame.n)) + 2 + Len(ElemsWire(taken))
       ELSE ~result.ok

\* an array of count 2 followed by three element encodings decodes to the
\* first two
C2_Witness ==
  /\ Done
  /\ frame.family = "aggregate"
  /\ frame.tag = ARRAY
  /\ frame.n = 2
  /\ frame.elems = <<1, 3, 2>>
  /\ result.ok
  /\ result.val = Array(<<SimpleString(<<"a">>), Array(<<Integer(1)>>)>>)

----------------------------------------------------------------------------
(* C3 *)

RECURSIVE HasPush(_)
\* the value is a push or holds one at some depth
HasPush(v) ==
  \/ v.type = "Push"
  \/ /\ v.type \in {"Array", "Set"}
     /\ \E i \in 1..Len(v.items) : HasPush(v.items[i])
  \/ /\ v.type = "Map"
     /\ \E i \in 1..Len(v.pairs) : HasPush(v.pairs[i][1]) \/ HasPush(v.pairs[i][2])

\* a push somewhere below the root of the value
PushBelowRoot(v) ==
  \/ /\ v.type \in {"Array", "Set", "Push"}
     /\ \E i \in 1..Len(v.items) : HasPush(v.items[i])
  \/ /\ v.type = "Map"
     /\ \E i \in 1..Len(v.pairs) : HasPush(v.pairs[i][1]) \/ HasPush(v.pairs[i][2])

\* the number of nested values the aggregate of the frame asks for
Needed == IF frame.tag = MAP THEN 2 * frame.n ELSE frame.n

\* the decoder meets a '>' tag while it decodes a nested element: one of the
\* element encodings it gets to holds a push
MeetsNestedPush ==
  /\ IsAggregateFrame
  /\ \E k \in 1..Len(frame.elems) : k <= Needed /\ ~ElemTable[frame.elems[k]].nested

\* C3: a '>' tag met while a nested element is decoded (an element of an array,
\* set or push, a key or value of a map, at any depth) makes parse return None
\* even if the nested push is well formed, and no value parse returns holds a
\* push below its root.
C3_PushOnlyAtRoot ==
  Done => /\ MeetsNestedPush => ~result.ok
          /\ result.ok => ~PushBelowRoot(result.val)

\* the well-formed push >0 as the value of a map entry is rejected
C3_Witness ==
  /\ Done
  /\ frame.family = "aggregate"
  /\ frame.tag = MAP
  /\ frame.n = 1
  /\ frame.elems = <<1, 4>>
  /\ ~result.ok

----------------------------------------------------------------------------
(* C4 *)

\* a type tag followed by free text: the text starts with the line that the
\* arm of the tag reads first (the payload of + - : , ( _ #, the length or
\* count line of the others)
IsTaggedLineFrame == frame.family = "line" /\ frame.tag \in Tags

\* C4: a line read by the decoder is accepted only if its first CR or LF is a
\* CR with a LF right behind it: a LF before any CR, a CR followed by another
\* character, a CR at the end of the input and an input without terminator
\* each make parse return None; the text of a line that is accepted holds
\* neither CR nor LF.
C4_StrictTerminator ==
  (Done /\ IsTaggedLineFrame)
    => /\ ~Terminated(frame.body) => ~result.ok
       /\ (result.ok /\ frame.tag \in {SIMPLE_STRING, SIMPLE_ERROR})
            => /\ result.val.text = FirstLine(frame.body)
               /\ NoBreak(result.val.text)
               /\ result.pos = 1 + Len(result.val.text) + 2

\* a simple string with a LF before its CR LF is rejected
C4_Witness ==
  /\ Done
  /\ frame.family = "line"
  /\ frame.tag = SIMPLE_STRING
  /\ frame.body = <<"a", LF, CR, LF>>
  /\ ~result.ok

----------------------------------------------------------------------------
(* C9, C10 *)

\* a '(' followed by free text whose first line is ended by CR LF
IsBigNumberFrame ==
  frame.family = "line" /\ frame.tag = BIG_NUMBER /\ Terminated(frame.body)

BigLine == FirstLine(frame.body)

HasSign(line) == line # <<>> /\ line[1] \in {"+", "-"}

\* the line without its sign, if it has one
Unsigned(line) == IF HasSign(line) THEN Tail(line) ELSE line

\* C9: for a '(' line made of an optional single + or - followed by ASCII
\* digits d (one or more), parse returns BigNumber(d) when the sign is absent or
\* +, and BigNumber of - followed by d when the sign is -, the digits as they
\* are written; a line with a character that is no digit after the optional
\* sign, a second sign included, makes parse return None.
C9_BigNumberSign ==
  (Done /\ IsBigNumberFrame)
    => LET d == Unsigned(BigLine) IN
       /\ (d # <<>> /\ \A i \in 1..Len(d) : d[i] \in Digits)
            => /\ result.ok
               /\ result.val = BigNumber(IF BigLine[1] = "-" THEN <<"-">> \o d ELSE d)
               /\ result.pos = 1 + Len(BigLine) + 2
       /\ (\E i \in 1..Len(d) : d[i] \notin Digits) => ~result.ok

\* (+1 decodes to the text 1
C9_Witness ==
  /\ Done
  /\ frame.family = "line"
  /\ frame.tag = BIG_NUMBER
  /\ frame.body = <<"+", "1", CR, LF>>
  /\ result.ok
  /\ result.val = BigNumber(<<"1">>)

\* C10: the text of every BigNumber that parse returns is a string of decimal
\* digits with an optional leading -: it is not empty and holds at least one
\* ASCII digit, so a line that is a sign alone is rejected as the empty line is.
C10_BigNumberHasDigit ==
  (Done /\ result.ok /\ result.val.type = "BigNumber")
    => LET text == result.val.text
           d == IF text # <<>> /\ text[1] = "-" THEN Tail(text) ELSE text
       IN /\ d # <<>>
          /\ \A i \in 1..Len(d) : d[i] \in Digits

----------------------------------------------------------------------------
(* C5 *)

\* a bulk string whose payload holds CR or LF, declared with the number of
\* characters of the payload
BreakInPayload ==
  /\ frame.family = "bulk"
  /\ frame.tag = BULK_STRING
  /\ \E i \in 1..Len(frame.body) : IsBreak(frame.body[i])
  /\ frame.n = Len(frame.body)

\* C5 as stated: a bulk string whose payload holds CR or LF and whose declared
\* length is the character count of the payload decodes to BulkString with the
\* payload unchanged.
C5_EmbeddedBreaksKept ==
  (Done /\ BreakInPayload) => result.ok /\ result.val = BulkString(frame.body)

\* C5, amended: a bulk string whose payload holds CR or LF and whose declared
\* length is the character count of the payload never decodes to BulkString
\* with that payload: the payload is read as one line ended by CR LF, as for a
\* simple string, so parse returns None (always when the payload is ASCII), or
\* a BulkString of the text before the first CR LF when the byte length of that
\* text is the declared length; no BulkString holds CR or LF.
C5_EmbeddedBreaksRejected ==
  (Done /\ BreakInPayload)
    => /\ result.ok => /\ result.val = BulkString(PayloadLine)
                       /\ result.val # BulkString(frame.body)
                       /\ NoBreak(result.val.text)
                       /\ Utf8Bytes(PayloadLine) = frame.n
       /\ Utf8Bytes(frame.body) = Len(frame.body) => ~result.ok

\* a payload with CR LF in its middle, declared with its four characters
C5_Witness ==
  /\ Done
  /\ frame.family = "bulk"
  /\ frame.tag = BULK_STRING
  /\ frame.body = <<"a", CR, LF, "a">>
  /\ frame.n = 4
  /\ ~result.ok

----------------------------------------------------------------------------
(* C6 *)

\* C6: for a '$' tag the declared length -1 gives NullBulkString and the
\* cursor stops right behind the CR LF of the length line: no payload line is
\* taken, and a sibling that follows in an aggregate is decoded from there; a
\* declared length below -1 makes parse return None.
C6_NullBulkString ==
  Done =>
    /\ (IsBulkFrame /\ frame.tag = BULK_STRING /\ frame.n = -1)
         => /\ result.ok
            /\ result.val = NullBulkString
            /\ result.pos = 1 + Len(Dec(-1)) + 2
    /\ (IsBulkFrame /\ frame.tag = BULK_STRING /\ frame.n < -1) => ~result.ok
    /\ (CountedFrame /\ frame.n <= Len(frame.elems))
         => \A i \in 1..frame.n :
              ElemTable[frame.elems[i]].val = NullBulkString
                => /\ result.ok
                   /\ result.val.items[i] = NullBulkString
                   /\ i < frame.n
                        => result.val.items[i + 1] = ElemTable[frame.elems[i + 1]].val

\* a null bulk string followed by a sibling in an array
C6_Witness ==
  /\ Done
  /\ frame.family = "aggregate"
  /\ frame.tag = ARRAY
  /\ frame.n = 2
  /\ frame.elems = <<2, 1>>
  /\ result.ok
  /\ result.val = Array(<<NullBulkString, SimpleString(<<"a">>)>>)

----------------------------------------------------------------------------
(* C7 *)

\* C7: a length or count of -1 gives a null value only for '$' and '*'; for
\* '!', '=', '%', '~' and '>' every negative length or count, -1 included,
\* makes parse return None, whatever follows in the input.
C7_NullOnlyForBulkStringAndArray ==
  Done =>
    /\ (IsBulkFrame /\ frame.tag \in {BULK_ERROR, VERBATIM_STRING} /\ frame.n < 0)
         => ~result.ok
    /\ (IsAggregateFrame /\ frame.tag \in {MAP, SET, PUSH} /\ frame.n < 0)
         => ~result.ok
    /\ (IsBulkFrame /\ frame.tag = BULK_STRING /\ frame.n = -1)
         => result.ok /\ result.val = NullBulkString
    /\ (IsAggregateFrame /\ frame.tag = ARRAY /\ frame.n = -1)
         => result.ok /\ result.val = NullArray
    /\ (result.ok /\ result.val.type \in {"NullBulkString", "NullArray"})
         => frame.n = -1 /\ frame.tag \in {BULK_STRING, ARRAY}

\* a set of count -1 is rejected, with an element behind the count line
C7_Witness ==
  /\ Done
  /\ frame.family = "aggregate"
  /\ frame.tag = SET
  /\ frame.n = -1
  /\ frame.elems = <<1>>
  /\ ~result.ok

----------------------------------------------------------------------------
(* C8 *)

IsVerbatimFrame == IsBulkFrame /\ frame.tag = VERBATIM_STRING

HasColon(t) == \E i \in 1..Len(t) : t[i] = ":"

\* the text before the first ':' of a text that has one
BeforeColon(t) ==
  LET i == CHOOSE j \in 1..Len(t) : t[j] = ":" /\ \A k \in 1..(j - 1) : t[k] # ":"
  IN SubSeq(t, 1, i - 1)

\* the text behind the first ':'
AfterColon(t) == SubSeq(t, Len(BeforeColon(t)) + 2, Len(t))

\* C8 as stated: every VerbatimString has an encoding of exactly 3 characters
\* and declared length = 3 + 1 + length(data), the payload split at its first
\* ':'; parse returns None when the declared length is below 4, differs from
\* the length of the payload, when the payload has no ':' or when the text
\* before the first ':' is not 3 characters long.
C8_CharacterLengths ==
  (Done /\ IsVerbatimFrame)
    => /\ result.ok => /\ result.val.type = "VerbatimString"
                       /\ Len(result.val.encoding) = 3
                       /\ frame.n = 3 + 1 + Len(result.val.data)
       /\ (\/ frame.n < 4
           \/ frame.n # Len(PayloadLine)
           \/ ~HasColon(PayloadLine)
           \/ Len(BeforeColon(PayloadLine)) # 3) => ~result.ok

\* C8, amended: every VerbatimString has an encoding of exactly 3 bytes in
\* UTF-8 (3 characters when it is ASCII) and declared length = 3 + 1 + byte
\* length of data, the payload split at its first ':'; parse returns None when
\* the declared length is below 4, differs from the byte length of the payload,
\* when the payload has no ':' or when the text before the first ':' is not 3
\* bytes long, and a VerbatimString otherwise.
C8_ByteLengths ==
  (Done /\ IsVerbatimFrame)
    => LET rejected == \/ ~Terminated(frame.body \o CRLF)
                       \/ frame.n < 4
                       \/ frame.n # Utf8Bytes(PayloadLine)
                       \/ ~HasColon(PayloadLine)
                       \/ Utf8Bytes(BeforeColon(PayloadLine)) # 3
       IN /\ rejected => ~result.ok
          /\ ~rejected
               => /\ result.ok
                  /\ result.val = VerbatimString(BeforeColon(PayloadLine),
                                                 AfterColon(PayloadLine))
                  /\ Utf8Bytes(result.val.encoding) = 3
                  /\ frame.n = 3 + 1 + Utf8Bytes(result.val.data)

\* an encoding of two characters and three bytes is accepted
C8_Witness ==
  /\ Done
  /\ frame.family = "verbatim"
  /\ frame.body = <<"a", EAcute, ":", "a">>
  /\ frame.n = 5
  /\ result.ok
  /\ result.val = VerbatimString(<<"a", EAcute>>, <<"a">>)

----------------------------------------------------------------------------
(* C11 *)

IsInlineFrame == frame.family = "inline"

RECURSIVE RunsFrom(_, _)
\* the maximal runs of characters that are not whitespace in t from index i
\* on, in order
RunsFrom(t, i) ==
  IF i > Len(t) THEN <<>>
  ELSE IF is_whitespace(t[i]) THEN RunsFrom(t, i + 1)
  ELSE LET j == CHOOSE k \in i..Len(t) :
                  /\ \A m \in i..k : ~is_whitespace(t[m])
                  /\ k = Len(t) \/ is_whitespace(t[k + 1])
       IN <<SubSeq(t, i, j)>> \o RunsFrom(t, j + 1)

\* C11: an input whose first character is none of the 14 type tags decodes to
\* Inline(tokens), tokens being the maximal runs without whitespace of the
\* whole input, the first character included, in order; every token is not
\* empty and holds no whitespace; parse returns None exactly when there is no
\* such run (an input of whitespace only) or the input is empty.  An input
\* whose first character is a type tag never decodes to an Inline.
C11_InlineTokens ==
  (Done /\ IsInlineFrame)
    => LET runs == RunsFrom(frame.body, 1) IN
       IF frame.body = <<>> THEN ~result.ok
       ELSE IF frame.body[1] \in Tags
            THEN result.ok => result.val.type # "Inline"
       ELSE /\ result.ok <=> runs # <<>>
            /\ result.ok
                 => /\ result.val = Inline(runs)
                    /\ \A i \in 1..Len(result.val.tokens) :
                         /\ result.val.tokens[i] # <<>>
                         /\ \A k \in 1..Len(result.val.tokens[i]) :
                              ~is_whitespace(result.val.tokens[i][k])

\* an input that starts with a blank: two tokens, the second with a tag in it
C11_Witness ==
  /\ Done
  /\ frame.family = "inline"
  /\ frame.body = <<" ", "a", "\t", "+", "b">>
  /\ result.ok
  /\ result.val = Inline(<< <<"a">>, <<"+", "b">> >>)

----------------------------------------------------------------------------
(* C12 *)

IsSiblingsFrame == frame.family = "siblings"

\* the nested decodes of the top-level aggregate's own elements
ElementCalls == SelectSeq(parse_calls(input), LAMBDA c : c.depth = 1)

\* where the encoding of the i-th element after the count line starts
ElementStart(i) ==
  Len(<<frame.tag>> \o Dec(frame.n) \o CRLF)
    + Len(SiblingsWire(SubSeq(frame.elems, 1, i - 1)))

\* C12: while the elements of an aggregate are decoded, every nested decode
\* starts where the encoding of its element starts (where the previous one
\* ended) and, when it succeeds, leaves the cursor where the encoding of the
\* next sibling starts: it consumes its own encoding and no character of a
\* following sibling, whatever its first character is.
C12_ElementsConsumeOwnEncoding ==
  (Done /\ IsSiblingsFrame)
    => \A i \in 1..Len(ElementCalls) :
         i <= Len(frame.elems)
           => /\ ElementCalls[i].from = ElementStart(i)
              /\ ElementCalls[i].result.ok
                   => ElementCalls[i].result.pos = ElementStart(i + 1)

----------------------------------------------------------------------------
(* C13 *)

IsMapFrame == frame.family = "map"

\* at least 2n element encodings follow the count line and none of the first
\* 2n holds a push
MapComplete ==
  /\ Len(frame.elems) >= 2 * frame.n
  /\ \A k \in 1..(2 * frame.n) : ElemTable[frame.elems[k]].nested

\* C13: for a '%' map with count n >= 0, parse decodes exactly 2n nested
\* values and returns Map with exactly n pairs in input order, pair i holding
\* the (2i-1)-th decoded value as key and the 2i-th as value; parse returns
\* None when fewer than 2n nested values can be decoded (an odd number of
\* values included) and when a key or a value is a push.
C13_MapPairs ==
  (Done /\ IsMapFrame)
    => IF MapComplete
       THEN /\ result.ok
            /\ result.val.type = "Map"
            /\ Len(result.val.pairs) = frame.n
            /\ \A i \in 1..frame.n :
                 result.val.pairs[i]
                   = <<ElemTable[frame.elems[2 * i - 1]].val,
                       ElemTable[frame.elems[2 * i]].val>>
            /\ Len(SelectSeq(parse_calls(input), LAMBDA c : c.depth = 1))
                 = 2 * frame.n
            /\ result.pos
                 = Len(<<MAP>> \o Dec(frame.n) \o CRLF)
                     + Len(ElemsWire(SubSeq(frame.elems, 1, 2 * frame.n)))
       ELSE ~result.ok

\* a map of count 2 with four different-looking values decodes to two pairs
C13_Witness ==
  /\ Done
  /\ frame.family = "map"
  /\ frame.n = 2
  /\ frame.elems = <<1, 2, 3, 1>>
  /\ result.ok
  /\ result.val = Map(<< <<SimpleString(<<"a">>), NullBulkString>>,
                         <<Array(<<Integer(1)>>), SimpleString(<<"a">>)>> >>)

----------------------------------------------------------------------------
(* C14 *)

\* a failed nested decode ends every loop it was made from: no decode starts
\* after it except below it
FirstFailureAborts(calls) ==
  \A i, j \in 1..Len(calls) :
    (i < j /\ ~calls[i].result.ok) => calls[j].depth > calls[i].depth

\* C14: parse terminates on every input, and the nested element decodes it
\* starts are at most as many as the input has characters, whatever the
\* declared counts are: the first failed element aborts the aggregate loop,
\* and a count larger than the number of elements left in the input gives
\* None.
C14_TerminatesWithinInput ==
  (pc = "start")
    ~> (/\ Done
        /\ Len(parse_calls(input)) <= Len(input)
        /\ FirstFailureAborts(parse_calls(input))
        /\ (IsSiblingsFrame /\ Needed > Len(frame.elems)) => ~result.ok)

\* an array of count 4 with two elements behind it: three decodes succeed
\* (two elements, one of them with an element of its own), the fourth meets
\* the end of the input
C14_Witness ==
  /\ Done
  /\ frame.family = "siblings"
  /\ frame.tag = ARRAY
  /\ frame.n = MaxCount
  /\ frame.elems = <<1, 3>>
  /\ Len(parse_calls(input)) = Len(frame.elems) + 2
  /\ ~result.ok

----------------------------------------------------------------------------
(* C15 *)

IsSuffixedFrame == frame.family = "suffixed"

\* the input without the appended text
BaseText == SubSeq(input, 1, Len(input) - Len(frame.body))

RECURSIVE HasInline(_)
\* the value is an Inline or holds one at some depth
HasInline(v) ==
  \/ v.type = "Inline"
  \/ /\ v.type \in {"Array", "Set", "Push"}
     /\ \E i \in 1..Len(v.items) : HasInline(v.items[i])
  \/ /\ v.type = "Map"
     /\ \E i \in 1..Len(v.pairs) :
          HasInline(v.pairs[i][1]) \/ HasInline(v.pairs[i][2])

\* C15: parse does not look behind the end of the top-level value it
\* decodes: when parse(s) returns a value that holds no Inline, parse of s
\* followed by any text t returns the same value, with the cursor at the same
\* place; trailing characters are ignored, they are no failure.
C15_TrailingTextIgnored ==
  (Done /\ IsSuffixedFrame)
    => LET r == parse_internal(BaseText, 0, FALSE) IN
       (r.ok /\ ~HasInline(r.val))
         => /\ result.ok
            /\ result.val = r.val
            /\ result.pos = r.pos

\* a set of one element with a line break and a letter behind it
C15_Witness ==
  /\ Done
  /\ frame.family = "suffixed"
  /\ frame.tag = SET
  /\ frame.elems = <<3>>
  /\ frame.body = <<LF, "a">>
  /\ result.ok
  /\ result.val = Set(<<Array(<<Integer(1)>>)>>)
  /\ result.pos = Len(input) - Len(frame.body)

====
